---- MODULE Spec2Model ----
(***************************************************************************)
(* State-machine model of package twocaptcha (src/twocaptcha.go):          *)
(* NewInstance (validation, balance check, URL building) and SolveCaptcha  *)
(* (task creation, solution polling).  The HTTP service is the             *)
(* environment: every request is answered by a body drawn from Bodies.     *)
(* URLs are sequences of the string pieces the code concatenates.          *)
(***************************************************************************)
EXTENDS Integers, Sequences, FiniteSets, TLC

\* Bound on the number of HTTP requests of one call (the loops of the
\* source have no bound of their own).
MaxRequests == 4

----------------------------------------------------------------------------
\* Package-level values (src/twocaptcha.go:13-37)

validTypes == <<"recaptchaV2", "recaptchaV3", "funcaptcha">>

validV3Scores == <<".1", ".3", ".9">>

capRequestURL == "https://2captcha.com/in.php?json=1"

capResultURL == "https://2captcha.com/res.php?json=1"

\* error value nil
NoErr == "<nil>"

captchaErrors ==
    ( "CAPCHA_NOT_READY"           :> "handled by program" ) @@
    ( "ERROR_NO_SLOT_AVAILABLE"    :> "handled by program" ) @@
    ( "ERROR_WRONG_USER_KEY"       :> "invalidly formatted api key" ) @@
    ( "ERROR_KEY_DOES_NOT_EXIST"   :> "invalid api key" ) @@
    ( "ERROR_ZERO_BALANCE"         :> "[in] empty account balance" ) @@
    ( "IP_BANNED"                  :> "[in] ip banned, contact 2captcha" ) @@
    ( "ERROR_BAD_TOKEN_OR_PAGEURL" :> "[in] recapv2 invalid token/pageurl" ) @@
    ( "ERROR_GOOGLEKEY"            :> "[in] recapv2 invalid sitekey" ) @@
    ( "MAX_USER_TURN"              :> "[in] too many requests, temp 10s ban" ) @@
    ( "CAPTCHA_NOT_READY"          :> "[res] captcha not ready" ) @@
    ( "ERROR_CAPTCHA_UNSOLVABLE"   :> "[res] unsolvable captcha" ) @@
    ( "ERROR_WRONG_ID_FORMAT"      :> "[res] invalidly formatted captcha id" ) @@
    ( "ERROR_WRONG_CAPTCHA_ID"     :> "[res] invalid captcha id" ) @@
    ( "ERROR_BAD_DUPLICATES"       :> "[res] not enough matches" ) @@
    ( "ERROR_EMPTY_ACTION"         :> "[res] action not found" )

\* Error values created with errors.New inside the two functions
ErrMissingSetting == "missing parameter(s) within settingParams"

ErrInvalidType == "invalid captcha type"

ErrMissingV2 == "missing parameter(s) within captchaParams for recaptchaV2"

ErrMissingV3 == "missing parameter(s) within captchaParams for recaptchaV3"

ErrInvalidScore == "invalid recaptchaV3 score (.1/.3/.9)"

ErrMissingFun == "missing parameter(s) within captchaParams for funcaptcha"

ErrTypeSwitch1 == "invalid captcha type (this shouldn't happen)"

ErrTypeSwitch2 == "invalid captcha type (this shouldn't happen!)"

ErrUnmarshal == "error unmarshalling (this shouldn't happen)"

----------------------------------------------------------------------------
\* Data types

\* a Go map[string]string is a function on the set of its keys
EmptyMap == [k \in {} |-> ""]

\* m[k] of a Go map: the zero value "" for an absent key
MapGet(m, k) == IF k \in DOMAIN m THEN m[k] ELSE ""

\* zero value of CaptchaInstance (the named result of NewInstance)
ZeroInstance ==
    [APIKey |-> "", CaptchaType |-> "", CreateTaskURL |-> << >>,
     SettingInfo |-> EmptyMap, HTTPClient |-> "nil"]

\* zero value of captchaResponse
ZeroResponse == [Status |-> 0, Response |-> ""]

\* A response body: not JSON at all (ok = FALSE), or a JSON object that
\* carries the fields named in has.
Unparseable == [ok |-> FALSE, has |-> {}, status |-> 0, request |-> ""]

EmptyObject == [ok |-> TRUE, has |-> {}, status |-> 0, request |-> ""]

Full(s, r) == [ok |-> TRUE, has |-> {"status", "request"}, status |-> s, request |-> r]

NoBody == [ok |-> FALSE, has |-> {"none"}, status |-> 0, request |-> ""]

----------------------------------------------------------------------------
\* Helper functions of the package

\* checkResponse: "currently does nothing", result is always true
checkResponse(rawResponse) == TRUE

\* checkError testing Status == 1 at line 69
checkError_statusOne(responseStruct) ==
    IF responseStruct.Status = 1 /\ responseStruct.Response \in DOMAIN captchaErrors
    THEN [errKey |-> responseStruct.Response,
          err    |-> captchaErrors[responseStruct.Response]]
    ELSE [errKey |-> "", err |-> NoErr]

\* checkError without the assignment of line 73 (err = value)
checkError_errNotSet(responseStruct) ==
    IF responseStruct.Status = 0 /\ responseStruct.Response \in DOMAIN captchaErrors
    THEN [errKey |-> responseStruct.Response, err |-> NoErr]
    ELSE [errKey |-> "", err |-> NoErr]

\* checkError: a status-0 response whose payload is a key of captchaErrors
\* yields that key and its error; anything else yields "" and nil.
checkError(responseStruct) ==
    IF responseStruct.Status = 0 /\ responseStruct.Response \in DOMAIN captchaErrors
    THEN [errKey |-> responseStruct.Response,
          err    |-> captchaErrors[responseStruct.Response]]
    ELSE [errKey |-> "", err |-> NoErr]

keyInMap(inputMap, key) == key \in DOMAIN inputMap

stringInSlice(inputSlice, key) == \E i \in 1..Len(inputSlice) : inputSlice[i] = key

\* Unmarshal whose error is dropped: a body that is not JSON leaves v alone
Unmarshal_errorDropped(body, v) ==
    [err |-> FALSE,
     val |-> [Status   |-> IF "status" \in body.has THEN body.status ELSE v.Status,
              Response |-> IF "request" \in body.has THEN body.request ELSE v.Response]]

\* json.Unmarshal(body, &v) for v of type captchaResponse: a body that is
\* not JSON is an error and leaves v alone; otherwise the fields present in
\* the object are stored and the absent ones keep their old value.
Unmarshal(body, v) ==
    IF ~body.ok
    THEN [err |-> TRUE, val |-> v]
    ELSE [err |-> FALSE,
          val |-> [Status   |-> IF "status" \in body.has THEN body.status ELSE v.Status,
                   Response |-> IF "request" \in body.has THEN body.request ELSE v.Response]]

\* strconv.Atoi with the error discarded: 0 for a string that is no number
Atoi(str) ==
    CASE str = "0"  -> 0
      [] str = "5"  -> 5
      [] str = "10" -> 10
      [] OTHER      -> 0

----------------------------------------------------------------------------
\* Inputs of the model

ApiKeys == {"KEY1"}

CaptchaTypes == {"recaptchaV2", "recaptchaV3", "funcaptcha", "hcaptcha"}

ParamKeys == {"sitekey", "siteurl", "action", "minscore", "key", "surl"}

Scores == {".1", ".3", ".9", ".5"}

ParamValue(k, score) ==
    CASE k = "sitekey"  -> "SITEKEY"
      [] k = "siteurl"  -> "SITEURL"
      [] k = "action"   -> "ACTION"
      [] k = "minscore" -> score
      [] k = "key"      -> "PUBKEY"
      [] k = "surl"     -> "SURL"

SettingMaps == {EmptyMap, [k \in {"timeBetweenReqs"} |-> "5"],
                [k \in {"timeBetweenReqs"} |-> "soon"]}

\* payloads the service puts in the "request" field
FailurePayloads == DOMAIN captchaErrors \cup {"ERROR_NOT_LISTED"}

SuccessPayloads == {"abc123", "SOLUTION_TOKEN"}

Bodies == {Unparseable, EmptyObject}
          \cup {Full(1, r) : r \in SuccessPayloads}
          \cup {Full(0, r) : r \in FailurePayloads}

\* instances a caller hands to SolveCaptcha (the fields are exported)
Receivers ==
    {[APIKey |-> "KEY1", CaptchaType |-> "recaptchaV2",
      CreateTaskURL |-> <<capRequestURL, "&key=", "KEY1",
                          "&method=userrecaptcha&googlekey=", "SITEKEY",
                          "&pageurl=", "SITEURL">>,
      SettingInfo |-> s, HTTPClient |-> "client"] : s \in SettingMaps}

NoArgs == [apiKey |-> "", captchaType |-> "", captchaParams |-> EmptyMap,
           settingParams |-> EmptyMap]

----------------------------------------------------------------------------
\* State

VARIABLES
    pc,               \* "idle", "balance", "newReturned", "create", "poll", "solveReturned"
    args,             \* arguments of the NewInstance call
    instance,         \* named result of NewInstance / receiver of SolveCaptcha
    finalErr,         \* named result finalErr of the running call
    requestURL,       \* local of NewInstance
    taskStruct,       \* response struct of the task-creation phase
    errKey,           \* errKey of the task-creation check (line 239)
    checkSolutionURL, \* local of SolveCaptcha
    timeToSleep,      \* local of SolveCaptcha, in seconds
    solution,         \* named result of SolveCaptcha
    buffers,          \* request/response buffers of the fasthttp pool held by the call
    trace             \* requests sent, responses consumed and sleeps, in order

vars == <<pc, args, instance, finalErr, requestURL, taskStruct, errKey,
          checkSolutionURL, timeToSleep, solution, buffers, trace>>

\* trace events
Request(phase, url) == [ev |-> "request", phase |-> phase, url |-> url, body |-> NoBody, d |-> 0]

Response(phase, body) == [ev |-> "response", phase |-> phase, url |-> << >>, body |-> body, d |-> 0]

Sleep(phase, d) == [ev |-> "sleep", phase |-> phase, url |-> << >>, body |-> NoBody, d |-> d]

\* Buffers: how many Acquire and Release calls the running call has made,
\* how many buffers of each kind it holds, and whether it released a
\* buffer it did not hold.
NoBuffers ==
    [acquired |-> 0, released |-> 0, heldRequest |-> 0, heldResponse |-> 0,
     doubleRelease |-> FALSE]

\* one call of fasthttp.AcquireRequest / AcquireResponse / ReleaseRequest /
\* ReleaseResponse
BufferOp(b, op) ==
    CASE op = "AcquireRequest" ->
            [b EXCEPT !.acquired = @ + 1, !.heldRequest = @ + 1]
      [] op = "AcquireResponse" ->
            [b EXCEPT !.acquired = @ + 1, !.heldResponse = @ + 1]
      [] op = "ReleaseRequest" ->
            IF b.heldRequest = 0
            THEN [b EXCEPT !.released = @ + 1, !.doubleRelease = TRUE]
            ELSE [b EXCEPT !.released = @ + 1, !.heldRequest = @ - 1]
      [] op = "ReleaseResponse" ->
            IF b.heldResponse = 0
            THEN [b EXCEPT !.released = @ + 1, !.doubleRelease = TRUE]
            ELSE [b EXCEPT !.released = @ + 1, !.heldResponse = @ - 1]

RECURSIVE BufferOps(_, _)
BufferOps(b, ops) ==
    IF ops = << >> THEN b ELSE BufferOps(BufferOp(b, Head(ops)), Tail(ops))

\* the request loop leaking both buffers on the unmarshalling exit
RequestLoopBufferOps_leakOnError(checked, unmarshalFailed) ==
    <<"AcquireRequest", "AcquireResponse">>
    \o (IF checked /\ unmarshalFailed
        THEN << >>
        ELSE <<"ReleaseRequest", "ReleaseResponse">>)

\* The buffer calls of one iteration of a request loop (lines 153-168,
\* 221-236, 258-273): both buffers are acquired; the unmarshalling exit
\* releases them and breaks OuterLoop, every other path releases them at
\* the end of the iteration.
RequestLoopBufferOps(checked, unmarshalFailed) ==
    <<"AcquireRequest", "AcquireResponse">>
    \o (IF checked /\ unmarshalFailed
        THEN <<"ReleaseRequest", "ReleaseResponse">>
        ELSE <<"ReleaseRequest", "ReleaseResponse">>)

NumRequests == Cardinality({i \in DOMAIN trace : trace[i].ev = "request"})

Init ==
    /\ pc = "idle"
    /\ args = NoArgs
    /\ instance \in Receivers
    /\ finalErr = NoErr
    /\ requestURL = << >>
    /\ taskStruct = ZeroResponse
    /\ errKey = ""
    /\ checkSolutionURL = << >>
    /\ timeToSleep = 0
    /\ solution = ""
    /\ buffers = NoBuffers
    /\ trace = << >>

----------------------------------------------------------------------------
\* NewInstance (src/twocaptcha.go:101-203)

\* line 122
recaptchaV2ParamsPresent(captchaParams) ==
    keyInMap(captchaParams, "sitekey") /\ keyInMap(captchaParams, "siteurl")

\* lines 127-128
recaptchaV3ParamsPresent(captchaParams) ==
    /\ keyInMap(captchaParams, "sitekey") /\ keyInMap(captchaParams, "siteurl")
    /\ keyInMap(captchaParams, "action") /\ keyInMap(captchaParams, "minscore")

\* the funcaptcha check asking for "sitekey" (the key line 186 reads)
\* in place of "key"
funcaptchaParamsPresent_sitekey(captchaParams) ==
    /\ keyInMap(captchaParams, "sitekey") /\ keyInMap(captchaParams, "surl")
    /\ keyInMap(captchaParams, "siteurl")

\* lines 137-138
funcaptchaParamsPresent(captchaParams) ==
    /\ keyInMap(captchaParams, "key") /\ keyInMap(captchaParams, "surl")
    /\ keyInMap(captchaParams, "siteurl")

\* Validate with the checks of lines 107 and 113 in the other order
Validate_typeFirst(captchaType, captchaParams, settingParams) ==
    IF ~stringInSlice(validTypes, captchaType)
    THEN [err |-> ErrInvalidType, brk |-> TRUE]
    ELSE IF ~keyInMap(settingParams, "timeBetweenReqs")
    THEN [err |-> ErrMissingSetting, brk |-> TRUE]
    ELSE CASE captchaType = "recaptchaV2" ->
                IF ~recaptchaV2ParamsPresent(captchaParams)
                THEN [err |-> ErrMissingV2, brk |-> TRUE]
                ELSE [err |-> NoErr, brk |-> FALSE]
           [] captchaType = "recaptchaV3" ->
                IF ~recaptchaV3ParamsPresent(captchaParams)
                THEN [err |-> ErrMissingV3, brk |-> TRUE]
                ELSE IF ~stringInSlice(validV3Scores, MapGet(captchaParams, "minscore"))
                THEN [err |-> ErrInvalidScore, brk |-> FALSE]
                ELSE [err |-> NoErr, brk |-> FALSE]
           [] captchaType = "funcaptcha" ->
                IF ~funcaptchaParamsPresent(captchaParams)
                THEN [err |-> ErrMissingFun, brk |-> TRUE]
                ELSE [err |-> NoErr, brk |-> FALSE]
           [] OTHER -> [err |-> ErrTypeSwitch1, brk |-> TRUE]

\* Lines 106-145: the value of finalErr after the validation steps, and
\* whether the step that set it left OuterLoop (brk).  The invalid-score
\* branch (lines 133-135) sets finalErr and does not break.
Validate(captchaType, captchaParams, settingParams) ==
    IF ~keyInMap(settingParams, "timeBetweenReqs")
    THEN [err |-> ErrMissingSetting, brk |-> TRUE]
    ELSE IF ~stringInSlice(validTypes, captchaType)
    THEN [err |-> ErrInvalidType, brk |-> TRUE]
    ELSE CASE captchaType = "recaptchaV2" ->
                IF ~recaptchaV2ParamsPresent(captchaParams)
                THEN [err |-> ErrMissingV2, brk |-> TRUE]
                ELSE [err |-> NoErr, brk |-> FALSE]
           [] captchaType = "recaptchaV3" ->
                IF ~recaptchaV3ParamsPresent(captchaParams)
                THEN [err |-> ErrMissingV3, brk |-> TRUE]
                ELSE IF ~stringInSlice(validV3Scores, MapGet(captchaParams, "minscore"))
                THEN [err |-> ErrInvalidScore, brk |-> FALSE]
                ELSE [err |-> NoErr, brk |-> FALSE]
           [] captchaType = "funcaptcha" ->
                IF ~funcaptchaParamsPresent(captchaParams)
                THEN [err |-> ErrMissingFun, brk |-> TRUE]
                ELSE [err |-> NoErr, brk |-> FALSE]
           [] OTHER -> [err |-> ErrTypeSwitch1, brk |-> TRUE]

\* the balance check sent to the task-creation endpoint
BalanceURL_requestEndpoint(apiKey) == <<capRequestURL, "&action=getBalance&key=", apiKey>>

\* line 150
BalanceURL(apiKey) == <<capResultURL, "&action=getBalance&key=", apiKey>>

\* Lines 177-192: the switch is on instance.CaptchaType, a field of the
\* named result, which is assigned only at line 195.  Each case appends to
\* requestURL (not to createTaskURL); the default case fails.
TypeSwitch(switchedType, captchaParams) ==
    CASE switchedType = "recaptchaV2" ->
            [dflt |-> FALSE,
             app  |-> <<"method=userrecaptcha&googlekey=", MapGet(captchaParams, "sitekey"),
                        "&pageurl=", MapGet(captchaParams, "siteurl")>>]
      [] switchedType = "recaptchaV3" ->
            [dflt |-> FALSE,
             app  |-> <<"method=userrecaptcha&version=v3&googlekey=",
                        MapGet(captchaParams, "sitekey"),
                        "&pageurl=", MapGet(captchaParams, "siteurl"),
                        "&action=", MapGet(captchaParams, "action"),
                        "&min_score=", MapGet(captchaParams, "minScore")>>]
      [] switchedType = "funcaptcha" ->
            [dflt |-> FALSE,
             app  |-> <<"method=funcaptcha&publickey=", MapGet(captchaParams, "sitekey"),
                        "&surl=", MapGet(captchaParams, "surl"),
                        "&pageurl=", MapGet(captchaParams, "siteurl")>>]
      [] OTHER -> [dflt |-> TRUE, app |-> << >>]

\* AfterBalance with the assignments of lines 194-198 moved before the
\* error check of line 171
AfterBalance_assignFirst(inst, ferr, reqURL, a, balanceStruct) ==
    LET ce == checkError(balanceStruct)
        assigned == [APIKey |-> a.apiKey, CaptchaType |-> a.captchaType,
                     CreateTaskURL |-> <<capRequestURL, "&key=", a.apiKey>>,
                     SettingInfo |-> a.settingParams, HTTPClient |-> "client"]
        sw == TypeSwitch(inst.CaptchaType, a.captchaParams)
    IN  IF ce.err # NoErr
        THEN [instance |-> assigned, finalErr |-> ce.err, requestURL |-> reqURL]
        ELSE IF sw.dflt
        THEN [instance |-> assigned, finalErr |-> ErrTypeSwitch2, requestURL |-> reqURL]
        ELSE [instance |-> assigned, finalErr |-> ferr, requestURL |-> reqURL \o sw.app]

\* Lines 171-199: what NewInstance does with a parsed balance response.
\* inst and ferr are the named results as they are at line 171.
AfterBalance(inst, ferr, reqURL, a, balanceStruct) ==
    LET ce == checkError(balanceStruct)
        createTaskURL == <<capRequestURL, "&key=", inst.APIKey>>
        sw == TypeSwitch(inst.CaptchaType, a.captchaParams)
    IN  IF ce.err # NoErr
        THEN [instance |-> inst, finalErr |-> ce.err, requestURL |-> reqURL]
        ELSE IF sw.dflt
        THEN [instance |-> inst, finalErr |-> ErrTypeSwitch2, requestURL |-> reqURL]
        ELSE [instance |-> [APIKey |-> a.apiKey, CaptchaType |-> a.captchaType,
                            CreateTaskURL |-> createTaskURL,
                            SettingInfo |-> a.settingParams, HTTPClient |-> "client"],
              finalErr |-> ferr,
              requestURL |-> reqURL \o sw.app]

\* The call, up to the first request: lines 101-150.
NewInstance(apiKey, captchaType, captchaParams, settingParams) ==
    /\ pc = "idle"
    /\ args' = [apiKey |-> apiKey, captchaType |-> captchaType,
                captchaParams |-> captchaParams, settingParams |-> settingParams]
    /\ instance' = ZeroInstance
    /\ LET v == Validate(captchaType, captchaParams, settingParams)
       IN  /\ finalErr' = v.err
           /\ IF v.brk
              THEN pc' = "newReturned" /\ requestURL' = << >>
              ELSE pc' = "balance" /\ requestURL' = BalanceURL(apiKey)
    /\ buffers' = NoBuffers
    /\ UNCHANGED <<taskStruct, errKey, checkSolutionURL, timeToSleep, solution, trace>>

\* One iteration of the balance loop (lines 152-169) and, when it ends the
\* loop, the rest of the function (lines 171-202).
BalanceCheck(body) ==
    /\ pc = "balance"
    /\ NumRequests < MaxRequests
    /\ trace' = trace \o <<Request("balance", requestURL), Response("balance", body)>>
    /\ buffers' = BufferOps(buffers, RequestLoopBufferOps(checkResponse(body), ~body.ok))
    /\ IF checkResponse(body)
       THEN LET um == Unmarshal(body, ZeroResponse)
                r  == AfterBalance(instance, finalErr, requestURL, args, um.val)
            IN  /\ pc' = "newReturned"
                /\ IF um.err
                   THEN finalErr' = ErrUnmarshal /\ UNCHANGED <<instance, requestURL>>
                   ELSE /\ instance' = r.instance
                        /\ finalErr' = r.finalErr
                        /\ requestURL' = r.requestURL
       ELSE UNCHANGED <<pc, instance, finalErr, requestURL>>
    /\ UNCHANGED <<args, taskStruct, errKey, checkSolutionURL, timeToSleep, solution>>

----------------------------------------------------------------------------
\* SolveCaptcha (src/twocaptcha.go:207-291)

\* lines 214-215, in seconds
TimeToSleep(inst) == Atoi(MapGet(inst.SettingInfo, "timeBetweenReqs"))

\* line 249
CheckSolutionURL(inst, captchaTaskID) ==
    <<capResultURL, "&key=", inst.APIKey, "&action=get&id=", captchaTaskID>>

\* The source declares taskStruct nowhere.  Its declaration has to enclose
\* lines 227 and 276, so it is either outside OuterLoop (the value survives
\* a new iteration) or at the top of its body (the value is zeroed).
TaskStructAtOuterLoop(ts) == {ts, ZeroResponse}

\* SolveCaptcha storing the parsed interval back into the receiver
SolveCaptcha_writesSetting ==
    /\ \/ pc = "idle"
       \/ pc = "newReturned" /\ finalErr = NoErr
       \/ pc = "solveReturned"
    /\ instance.HTTPClient = "client"
    /\ pc' = "create"
    /\ solution' = ""
    /\ finalErr' = NoErr
    /\ checkSolutionURL' = << >>
    /\ timeToSleep' = TimeToSleep(instance)
    /\ taskStruct' = ZeroResponse
    /\ errKey' = ""
    /\ buffers' = NoBuffers
    /\ trace' = << >>
    /\ instance' = [instance EXCEPT !.SettingInfo = [k \in {"timeBetweenReqs"} |-> "0"]]
    /\ UNCHANGED <<args, requestURL>>

\* The call and the head of the first OuterLoop iteration: lines 207-215.
\* The receiver needs a non-nil HTTPClient (line 225 dereferences it).
\* The caller may call again on the same instance after a call returned.
SolveCaptcha ==
    /\ \/ pc = "idle"
       \/ pc = "newReturned" /\ finalErr = NoErr
       \/ pc = "solveReturned"
    /\ instance.HTTPClient = "client"
    /\ pc' = "create"
    /\ solution' = ""
    /\ finalErr' = NoErr
    /\ checkSolutionURL' = << >>
    /\ timeToSleep' = TimeToSleep(instance)
    /\ taskStruct' = ZeroResponse
    /\ errKey' = ""
    /\ buffers' = NoBuffers
    /\ trace' = << >>
    /\ UNCHANGED <<args, instance, requestURL>>

\* One iteration of CreateTaskLoop: lines 218-251.
CreateTask(body) ==
    /\ pc = "create"
    /\ NumRequests < MaxRequests
    /\ IF checkResponse(body)
       THEN LET um == Unmarshal(body, taskStruct)
                ce == checkError(um.val)
                sent == trace \o <<Request("create", instance.CreateTaskURL),
                                   Response("create", body)>>
            IN  IF um.err
                THEN /\ finalErr' = ErrUnmarshal
                     /\ pc' = "solveReturned"
                     /\ trace' = sent
                     /\ UNCHANGED <<taskStruct, errKey, checkSolutionURL>>
                ELSE /\ taskStruct' = um.val
                     /\ errKey' = ce.errKey
                     /\ IF ce.err # NoErr
                        THEN IF ce.errKey = "ERROR_NO_SLOT_AVAILABLE"
                             THEN /\ trace' = sent \o <<Sleep("create", timeToSleep)>>
                                  /\ UNCHANGED <<pc, finalErr, checkSolutionURL>>
                             ELSE /\ finalErr' = ce.err
                                  /\ pc' = "solveReturned"
                                  /\ trace' = sent
                                  /\ UNCHANGED checkSolutionURL
                        ELSE /\ checkSolutionURL' = CheckSolutionURL(instance, um.val.Response)
                             /\ pc' = "poll"
                             /\ trace' = sent
                             /\ UNCHANGED finalErr
       ELSE /\ trace' = trace \o <<Request("create", instance.CreateTaskURL),
                                   Response("create", body)>>
            /\ UNCHANGED <<pc, finalErr, taskStruct, errKey, checkSolutionURL>>
    /\ buffers' = BufferOps(buffers, RequestLoopBufferOps(checkResponse(body), ~body.ok))
    /\ UNCHANGED <<args, instance, requestURL, timeToSleep, solution>>

\* One iteration of SolutionLoop: lines 254-287.  The error check of line
\* 276 reads taskStruct, and line 277 reads errKey; after line 286 control
\* is at the end of the body of OuterLoop, which has no exit there, so the
\* next iteration of OuterLoop starts (lines 210-215).
CheckSolution(body) ==
    /\ pc = "poll"
    /\ NumRequests < MaxRequests
    /\ IF checkResponse(body)
       THEN LET um == Unmarshal(body, ZeroResponse)
                solutionStruct == um.val
                ce == checkError(taskStruct)
                sent == trace \o <<Request("poll", checkSolutionURL),
                                   Response("poll", body)>>
            IN  IF um.err
                THEN /\ finalErr' = ErrUnmarshal
                     /\ pc' = "solveReturned"
                     /\ trace' = sent
                     /\ UNCHANGED <<solution, checkSolutionURL, timeToSleep, taskStruct>>
                ELSE IF ce.err # NoErr
                THEN IF errKey = "CAPCHA_NOT_READY"
                     THEN /\ trace' = sent \o <<Sleep("poll", timeToSleep)>>
                          /\ UNCHANGED <<pc, finalErr, solution, checkSolutionURL,
                                         timeToSleep, taskStruct>>
                     ELSE /\ finalErr' = ce.err
                          /\ pc' = "solveReturned"
                          /\ trace' = sent
                          /\ UNCHANGED <<solution, checkSolutionURL, timeToSleep, taskStruct>>
                ELSE /\ solution' = solutionStruct.Response
                     /\ pc' = "create"
                     /\ checkSolutionURL' = << >>
                     /\ timeToSleep' = TimeToSleep(instance)
                     /\ taskStruct' \in TaskStructAtOuterLoop(taskStruct)
                     /\ trace' = sent
                     /\ UNCHANGED finalErr
       ELSE /\ trace' = trace \o <<Request("poll", checkSolutionURL),
                                   Response("poll", body)>>
            /\ UNCHANGED <<pc, finalErr, solution, checkSolutionURL, timeToSleep, taskStruct>>
    /\ buffers' = BufferOps(buffers, RequestLoopBufferOps(checkResponse(body), ~body.ok))
    /\ UNCHANGED <<args, instance, requestURL, errKey>>

----------------------------------------------------------------------------
\* Specification

Next ==
    \/ \E k \in ApiKeys, t \in CaptchaTypes, ks \in SUBSET ParamKeys,
          sc \in Scores, sp \in SettingMaps :
          NewInstance(k, t, [p \in ks |-> ParamValue(p, sc)], sp)
    \/ \E body \in Bodies : BalanceCheck(body)
    \/ SolveCaptcha
    \/ \E body \in Bodies : CreateTask(body)
    \/ \E body \in Bodies : CheckSolution(body)

Spec == Init /\ [][Next]_vars

----------------------------------------------------------------------------
\* Vocabulary of the properties

IsResponse(e, phase) == e.ev = "response" /\ e.phase = phase

IsRequest(e, phase) == e.ev = "request" /\ e.phase = phase

IsSleep(e, phase) == e.ev = "sleep" /\ e.phase = phase

\* a response with success status (status 1) and a payload
IsSuccess(body) == body.ok /\ body.has = {"status", "request"} /\ body.status = 1

\* a response with failure status (status 0) whose payload is code
IsFailure(body, code) == body = Full(0, code)

Count(phase, ev) ==
    Cardinality({i \in DOMAIN trace : trace[i].ev = ev /\ trace[i].phase = phase})

IsPollResponse(e) == IsResponse(e, "poll")

IsCreateResponse(e) == IsResponse(e, "create")

\* the responses consumed by the current call in one phase, in order
PollResponses == SelectSeq(trace, IsPollResponse)

CreateResponses == SelectSeq(trace, IsCreateResponse)

Returned == pc = "solveReturned"

\* required parameter keys of each variant (spec 4.1, step 3)
Variants == {"recaptchaV2", "recaptchaV3", "funcaptcha"}

RequiredKeys(variant) ==
    CASE variant = "recaptchaV2" -> {"sitekey", "siteurl"}
      [] variant = "recaptchaV3" -> {"sitekey", "siteurl", "action", "minscore"}
      [] variant = "funcaptcha"  -> {"key", "surl", "siteurl"}

MissingParamError(variant) ==
    CASE variant = "recaptchaV2" -> ErrMissingV2
      [] variant = "recaptchaV3" -> ErrMissingV3
      [] variant = "funcaptcha"  -> ErrMissingFun

AllowedScores == {".1", ".3", ".9"}

SettingPresent == "timeBetweenReqs" \in DOMAIN args.settingParams

\* the arguments of the NewInstance call pass validation steps 1 to 4
ValidArgs ==
    /\ SettingPresent
    /\ args.captchaType \in Variants
    /\ RequiredKeys(args.captchaType) \subseteq DOMAIN args.captchaParams
    /\ args.captchaType = "recaptchaV3" => args.captchaParams["minscore"] \in AllowedScores

BalanceSucceeded ==
    \E i \in DOMAIN trace : IsResponse(trace[i], "balance") /\ IsSuccess(trace[i].body)

----------------------------------------------------------------------------
\* Properties

\* C1: whenever a solution-check response with success status is received,
\* SolveCaptcha terminates: the response is the last event of the call, the
\* call has returned, the solution is that response's payload and the error
\* is nil.
C1_SuccessEndsTheCall ==
    \A i \in DOMAIN trace :
        (IsResponse(trace[i], "poll") /\ IsSuccess(trace[i].body))
        => /\ i = Len(trace)
           /\ Returned
           /\ solution = trace[i].body.request
           /\ finalErr = NoErr

\* C2: for every supported variant, when the poll-interval setting and all
\* required keys are present (and the score is allowed) and the balance
\* check returns a success response, NewInstance returns a nil error and an
\* instance populated from its inputs.
C2_ValidInputsGiveInstance ==
    (pc = "newReturned" /\ ValidArgs /\ BalanceSucceeded)
    => /\ finalErr = NoErr
       /\ instance.APIKey = args.apiKey
       /\ instance.CaptchaType = args.captchaType
       /\ instance.CreateTaskURL # << >>
       /\ instance.SettingInfo = args.settingParams
       /\ instance.HTTPClient = "client"

\* C3: if the solution endpoint answers CAPCHA_NOT_READY n times and then a
\* success response with payload T, SolveCaptcha sends exactly n+1
\* solution-check requests, sleeps exactly n poll intervals in the polling
\* phase and returns T; a not-ready payload is never the solution.
C3_NotReadyThenSolved ==
    /\ \A n \in 0..MaxRequests :
          ( /\ Len(PollResponses) > n
            /\ \A j \in 1..n : IsFailure(PollResponses[j].body, "CAPCHA_NOT_READY")
            /\ IsSuccess(PollResponses[n+1].body) )
          => /\ Count("poll", "request") = n + 1
             /\ Count("poll", "sleep") = n
             /\ Returned /\ finalErr = NoErr
             /\ solution = PollResponses[n+1].body.request
    /\ solution # "CAPCHA_NOT_READY"

\* C4: a solution-check response with failure status and a catalogued code
\* other than the not-ready code makes SolveCaptcha return at once with the
\* error the catalogue maps the code to: the response is the last event of
\* the call (no sleep, no further request).
C4_FatalPollErrorReturns ==
    \A i \in DOMAIN trace : \A code \in DOMAIN captchaErrors \ {"CAPCHA_NOT_READY"} :
        (IsResponse(trace[i], "poll") /\ IsFailure(trace[i].body, code))
        => /\ i = Len(trace)
           /\ Returned
           /\ finalErr = captchaErrors[code]

\* C5: if the task-creation endpoint answers ERROR_NO_SLOT_AVAILABLE n times
\* and then a success response with payload ID, SolveCaptcha sends exactly
\* n+1 task-creation requests, sleeps exactly n poll intervals in the
\* creation phase, and every solution-check request targets the result
\* endpoint with the instance's API key, action=get and id=ID.
C5_NoSlotThenCreated ==
    \A n \in 0..MaxRequests :
        ( /\ Len(CreateResponses) > n
          /\ \A j \in 1..n : IsFailure(CreateResponses[j].body, "ERROR_NO_SLOT_AVAILABLE")
          /\ IsSuccess(CreateResponses[n+1].body) )
        => /\ Count("create", "request") = n + 1
           /\ Count("create", "sleep") = n
           /\ \A i \in DOMAIN trace :
                 IsRequest(trace[i], "poll")
                 => trace[i].url = <<capResultURL, "&key=", instance.APIKey,
                                     "&action=get&id=", CreateResponses[n+1].body.request>>

C8_InvalidScoreError ==
    ( /\ pc = "newReturned"
      /\ SettingPresent
      /\ args.captchaType = "recaptchaV3"
      /\ RequiredKeys("recaptchaV3") \subseteq DOMAIN args.captchaParams
      /\ args.captchaParams["minscore"] \notin AllowedScores )
    => /\ finalErr = ErrInvalidScore
       /\ instance.CreateTaskURL = << >>

\* C9: in every phase, a response body that cannot be parsed makes the
\* operation return the unmarshalling error at once: that response is the
\* last event of the call (no re-sent request, no sleep, no later phase).
C9_UnparseableIsFatal ==
    \A i \in DOMAIN trace :
        (trace[i].ev = "response" /\ ~trace[i].body.ok)
        => /\ i = Len(trace)
           /\ pc = (IF trace[i].phase = "balance" THEN "newReturned" ELSE "solveReturned")
           /\ finalErr = ErrUnmarshal

\* reached: an unparseable solution-check response after a no-slot retry
\* and a created task
C9_Witness ==
    /\ Returned
    /\ finalErr = ErrUnmarshal
    /\ Len(PollResponses) = 1
    /\ PollResponses[1].body = Unparseable
    /\ Count("create", "request") = 2
    /\ Count("poll", "request") = 1

\* C10: whenever SolveCaptcha returns a non-nil error, the solution it
\* returns is empty.
C10_ErrorMeansEmptySolution ==
    (Returned /\ finalErr # NoErr) => solution = ""

\* C11: one SolveCaptcha call creates at most one task: at most one
\* task-creation response with success status is consumed, and no
\* task-creation request follows it.
C11_AtMostOneTask ==
    \A i \in DOMAIN trace :
        (IsResponse(trace[i], "create") /\ IsSuccess(trace[i].body))
        => \A j \in DOMAIN trace : j > i => ~IsRequest(trace[j], "create")

\* number of occurrences of a piece in a URL
Occurrences(url, piece) == Cardinality({i \in DOMAIN url : url[i] = piece})

\* the pieces that carry the method of a variant (lines 179, 182, 186)
MethodPieces(variant) ==
    CASE variant = "recaptchaV2" ->
            {"method=userrecaptcha&googlekey=", "&method=userrecaptcha&googlekey="}
      [] variant = "recaptchaV3" ->
            {"method=userrecaptcha&version=v3&googlekey=",
             "&method=userrecaptcha&version=v3&googlekey="}
      [] variant = "funcaptcha" ->
            {"method=funcaptcha&publickey=", "&method=funcaptcha&publickey="}

\* C12: for each variant, a construction with valid inputs and a successful
\* balance check produces a CreateTaskURL that targets the task-creation
\* endpoint and contains the caller's API key, the variant's method and the
\* value of every required parameter key, each exactly once.
C12_CreateTaskURLComplete ==
    (pc = "newReturned" /\ ValidArgs /\ BalanceSucceeded)
    => /\ finalErr = NoErr
       /\ Len(instance.CreateTaskURL) > 0
       /\ instance.CreateTaskURL[1] = capRequestURL
       /\ Occurrences(instance.CreateTaskURL, args.apiKey) = 1
       /\ \E m \in MethodPieces(args.captchaType) :
             Occurrences(instance.CreateTaskURL, m) = 1
       /\ \A k \in RequiredKeys(args.captchaType) :
             Occurrences(instance.CreateTaskURL, args.captchaParams[k]) = 1

\* C13: when validation passes and the balance-check response has failure
\* status with a catalogued code, NewInstance aborts (the response is the
\* last event) and returns exactly the catalogue's error for that code.
C13_BalanceErrorReturned ==
    \A i \in DOMAIN trace : \A code \in DOMAIN captchaErrors :
        (ValidArgs /\ IsResponse(trace[i], "balance") /\ IsFailure(trace[i].body, code))
        => /\ i = Len(trace)
           /\ pc = "newReturned"
           /\ finalErr = captchaErrors[code]

\* reached: a valid funcaptcha call answered ERROR_KEY_DOES_NOT_EXIST
C13_Witness ==
    /\ pc = "newReturned"
    /\ ValidArgs
    /\ args.captchaType = "funcaptcha"
    /\ Len(trace) = 2
    /\ IsFailure(trace[2].body, "ERROR_KEY_DOES_NOT_EXIST")
    /\ finalErr = "invalid api key"

\* C14: whenever NewInstance returns a non-nil error, the instance it
\* returns has the zero value in every field.
C14_ErrorMeansEmptyInstance ==
    (pc = "newReturned" /\ finalErr # NoErr) => instance = ZeroInstance

\* reached: recaptchaV3 with a score outside the allowed set, a successful
\* balance check, and an error returned
C14_Witness ==
    /\ pc = "newReturned"
    /\ finalErr # NoErr
    /\ args.captchaType = "recaptchaV3"
    /\ RequiredKeys("recaptchaV3") \subseteq DOMAIN args.captchaParams
    /\ args.captchaParams["minscore"] = ".5"
    /\ BalanceSucceeded
    /\ instance = ZeroInstance

\* C15: NewInstance validates in a fixed order: a missing poll-interval
\* setting gives the missing-setting error whatever the variant and the
\* parameters are; with the setting present, an unsupported variant gives
\* the invalid-variant error whatever the parameters are; no request is
\* sent in either case.
C15_ValidationOrder ==
    /\ (pc = "newReturned" /\ ~SettingPresent)
       => (finalErr = ErrMissingSetting /\ trace = << >>)
    /\ (pc = "newReturned" /\ SettingPresent /\ args.captchaType \notin Variants)
       => (finalErr = ErrInvalidType /\ trace = << >>)

\* reached: no setting and an unsupported variant at once
C15_Witness ==
    /\ pc = "newReturned"
    /\ ~SettingPresent
    /\ args.captchaType = "hcaptcha"
    /\ finalErr = ErrMissingSetting
    /\ trace = << >>

\* a response with failure status (status 0), whatever its payload
HasFailureStatus(body) == body.ok /\ body.has = {"status", "request"} /\ body.status = 0

\* C16: a response with failure status is never treated as a success,
\* whatever its code: after one in task creation the next event is not a
\* solution-check request (its payload is not used as a task id), one in
\* solution polling never has its payload stored as the solution, and one
\* in the balance check ends construction with an error and no instance.
C16_FailureNeverSuccess ==
    \A i \in DOMAIN trace :
        /\ (IsResponse(trace[i], "create") /\ HasFailureStatus(trace[i].body))
           => ~(i < Len(trace) /\ IsRequest(trace[i+1], "poll"))
        /\ (IsResponse(trace[i], "poll") /\ HasFailureStatus(trace[i].body))
           => solution # trace[i].body.request
        /\ (IsResponse(trace[i], "balance") /\ HasFailureStatus(trace[i].body))
           => (pc = "newReturned" /\ finalErr # NoErr /\ instance = ZeroInstance)

\* C17: a NewInstance call whose inputs pass validation and whose balance
\* response is parseable sends exactly one request, the balance check
\* (result endpoint, action=getBalance, the caller's API key), and no
\* task-creation or solution-check request.
C17_OneBalanceRequest ==
    (pc = "newReturned" /\ ValidArgs
        /\ \E i \in DOMAIN trace : IsResponse(trace[i], "balance") /\ trace[i].body.ok)
    => /\ Len(trace) = 2
       /\ IsRequest(trace[1], "balance")
       /\ trace[1].url = <<capResultURL, "&action=getBalance&key=", args.apiKey>>
       /\ Count("create", "request") = 0
       /\ Count("poll", "request") = 0

\* reached: a valid recaptchaV2 call with a success balance response
C17_Witness ==
    /\ pc = "newReturned"
    /\ ValidArgs
    /\ args.captchaType = "recaptchaV2"
    /\ BalanceSucceeded
    /\ Count("balance", "request") = 1

\* C18: SolveCaptcha leaves the configuration of the instance unchanged on
\* every path: no step of a call (its start included) changes APIKey,
\* CaptchaType, CreateTaskURL or SettingInfo, and every task-creation
\* request a step sends targets the CreateTaskURL the instance had before
\* and has after it.
C18_InstanceUnchanged ==
    [][ pc' \in {"create", "poll", "solveReturned"}
        => /\ instance'.APIKey = instance.APIKey
           /\ instance'.CaptchaType = instance.CaptchaType
           /\ instance'.CreateTaskURL = instance.CreateTaskURL
           /\ instance'.SettingInfo = instance.SettingInfo
           /\ \A i \in DOMAIN trace' :
                 IsRequest(trace'[i], "create")
                 => trace'[i].url = instance.CreateTaskURL ]_vars

\* reached: a call that, after one no-slot retry, has sent its second
\* task-creation request and holds a task
C18_Witness ==
    /\ pc = "poll"
    /\ Count("create", "request") = 2
    /\ Count("create", "sleep") = 1
    /\ trace[1].url = instance.CreateTaskURL
    /\ trace[4].url = instance.CreateTaskURL
    /\ instance \in Receivers

\* C19: every request and response buffer a call acquires is released
\* exactly once: at every return the number of acquisitions (two per
\* request sent) equals the number of releases, no buffer is still held,
\* and no release ever hits a buffer that is not held.
C19_BuffersReleasedOnce ==
    /\ ~buffers.doubleRelease
    /\ pc \in {"newReturned", "solveReturned"}
       => /\ buffers.acquired = 2 * NumRequests
          /\ buffers.released = buffers.acquired
          /\ buffers.heldRequest = 0
          /\ buffers.heldResponse = 0

\* reached: a call that retried twice and left through the unmarshalling
\* exit of the polling phase
C19_Witness ==
    /\ Returned
    /\ finalErr = ErrUnmarshal
    /\ Count("create", "sleep") = 2
    /\ Count("poll", "request") = 1
    /\ buffers.acquired = 8
    /\ buffers.released = 8

====
